---- MODULE Spec2Model ----
(***************************************************************************)
(* The benchmark harness of scripts/benchmarks.py: has_data, run_script    *)
(* with its sampler thread, and main.  One primary thread (pc) walks       *)
(* through main and run_script; every call of run_script owns one sampler  *)
(* thread (spc[j]) with its own closure cells peak_mem_mb[j],              *)
(* min_mem_free_mb[j] and stop_flag[j].  ticksAvail and ticksRss keep, for *)
(* the call in progress, what its sampler has read so far; firstReport     *)
(* keeps RESULTS_FILE over a second run of the harness.                    *)
(*                                                                         *)
(* Memory readings are integers in hundredths of a MB, durations integers  *)
(* in 1/10000 s; round(x, 1) and round(x, 3) bring them to tenths of a MB  *)
(* and to milliseconds.  An optional value (None or a value) is <<>> or    *)
(* <<v>>.  A text is a sequence of lines, each a record [c, nl]: c the     *)
(* line's characters, nl whether a line break ends it.                     *)
(***************************************************************************)
EXTENDS Integers, Sequences, FiniteSets, TLC

\* ---------------------------------------------------------------- bounds
\* how many entries of SCRIPTS the model runs
NumJobs == 2
\* the longest captured stdout, in lines
MaxOutLines == 20

\* ------------------------------------------------------ program constants
\* out.splitlines()[-20:]
TailLen == 20
\* the exit code of a missing target and of a failed launch
NotFoundCode == 127

Null == <<>>
Some(x) == <<x>>
IsNull(o) == o = <<>>
Val(o) == o[1]

Min2(a, b) == IF a <= b THEN a ELSE b
Max2(a, b) == IF a >= b THEN a ELSE b

\* SCRIPTS: the job names in list order
ScriptNames ==
    << "geopandas", "dask_geopandas", "duckdb", "geopandas_county_wise",
       "geofileops", "sedona_pyspark" >>

SCRIPTS == SubSeq(ScriptNames, 1, Min2(NumJobs, Len(ScriptNames)))

Jobs == 1..Len(SCRIPTS)

\* ------------------------------------------------------------ environment
ShpName == "GebauedeBauwerk.shp"

\* an entry below DATA_DIR: depth directories down, with a name and a kind
FsEntry(depth, name, kind) == [depth |-> depth, name |-> name, kind |-> kind]

\* the layouts of DATA_DIR the model starts from
FsLayouts ==
    { {},
      {FsEntry(1, ShpName, "file")},
      {FsEntry(1, ShpName, "dir")},
      {FsEntry(0, ShpName, "file")},
      {FsEntry(2, ShpName, "file")},
      {FsEntry(1, "other.shp", "file")},
      {FsEntry(1, ShpName, "dir"), FsEntry(1, ShpName, "file")} }

\* what psutil.virtual_memory().available reads, in hundredths of a MB, on
\* a steady host and on one whose free memory moves
SteadyAvail == {100004}
MovingAvail == {100004, 100016}
\* the harness process's own resident memory
SelfRssReadings == {5000}
\* the resident memory of a child process
ChildRssReadings == {20004}
\* time.perf_counter() - start, in 1/10000 s
Durations == {12345}
\* proc.returncode of a script that ran
ExitCodes == {0, 1, 2}

\* what a job does: whether its path exists, whether sys.executable is
\* found at its launch, the exit code of its script, and what the script
\* prints (stdout: out lines, the last one ended by a line break iff outnl;
\* stderr: err lines)
Quiet ==
    [exists |-> TRUE, launches |-> TRUE, code |-> 0,
     out |-> 0, outnl |-> FALSE, err |-> 0]
Missing == [Quiet EXCEPT !.exists = FALSE]
NoLaunch == [Quiet EXCEPT !.launches = FALSE]
Printing(code, out, outnl, err) ==
    [Quiet EXCEPT !.code = code, !.out = out, !.outnl = outnl, !.err = err]

\* ------------------------------------------------------------------ texts
Char(src, n) == [src |-> src, n |-> n]
Line(c, nl) == [c |-> c, nl |-> nl]

\* k lines of a stream, every line ended by a line break but, when
\* terminated is false, the last
TextOf(src, k, terminated) ==
    [i \in 1..k |-> Line(<<Char(src, i)>>, (i < k) \/ terminated)]

NewlineText == << Line(<<>>, TRUE) >>

\* a + b on str
Concat(a, b) ==
    IF a = <<>> THEN b
    ELSE IF b = <<>> THEN a
    ELSE IF a[Len(a)].nl THEN a \o b
    ELSE SubSeq(a, 1, Len(a) - 1)
         \o << Line(a[Len(a)].c \o b[1].c, b[1].nl) >>
         \o SubSeq(b, 2, Len(b))

\* str.splitlines()
splitlines(t) == [i \in 1..Len(t) |-> t[i].c]

\* seq[:k], the head where the code takes the tail: C8 tells the two apart
LastItems_First(seq, k) == SubSeq(seq, 1, IF Len(seq) < k THEN Len(seq) ELSE k)

\* seq[-k:]
LastItems(seq, k) == SubSeq(seq, Max2(0, Len(seq) - k) + 1, Len(seq))

\* the scripts whose output the model tries
PrintingJobs ==
    { Printing(code, out, outnl, err) :
        code \in ExitCodes, out \in {0, 1, MaxOutLines}, outnl \in BOOLEAN,
        err \in {0, 1, TailLen} }
    \ { Printing(code, 0, TRUE, err) : code \in ExitCodes, err \in {0, 1, TailLen} }

\* round(x, n): to the nearest multiple of unit, ties to even
RoundTo(x, unit) ==
    LET q == x \div unit
        r == x % unit
    IN  IF 2 * r < unit THEN q
        ELSE IF 2 * r > unit THEN q + 1
        ELSE IF q % 2 = 0 THEN q ELSE q + 1


\* ------------------------------------------------------------------ state
VARIABLES
    psutil,           \* whether the psutil import succeeded (lines 25-32)
    dataDirExists,    \* DATA_DIR.exists()
    dataFiles,        \* the entries below DATA_DIR
    job,              \* what each job of SCRIPTS does when it is run
    hostAvail,        \* the readings of available memory the host gives
    hostStalls,       \* whether the host is so loaded that a sampler's
                      \* iteration can outlast the join timeout
    again,            \* whether the harness is run a second time
    pc,               \* where the primary thread is
    idx,              \* the position of the for loop in SCRIPTS
    results,          \* main's results: [meta, runs]
    reportFile,       \* RESULTS_FILE: Null, or the one document written
    writes,           \* how many times RESULTS_FILE was written
    exitCode,         \* what main returned: Null while it has not
    firstReport,      \* RESULTS_FILE as the first of two runs left it
    pre_mem_free_mb,  \* run_script's locals
    proc,
    duration,
    peak_mem_less_avail_mb,
    ret,              \* the value of the return expression, kept over finally
    spc,              \* where each call's sampler thread is
    peak_mem_mb,      \* each call's closure cells
    min_mem_free_mb,
    stop_flag,
    rss,              \* each sampler's locals: the sum of line 83, and the
    child_procs,      \* processes that line 85 enumerated
    ticksAvail,       \* history: the readings of line 81 each sampler took
    ticksRss,         \* history: what each completed tick measured
    launched          \* the jobs subprocess.run was called for

envVars ==
    << psutil, dataDirExists, dataFiles, job, hostAvail, hostStalls, again >>
mainVars == << pc, idx, results, reportFile, writes, exitCode, firstReport >>
localVars == << pre_mem_free_mb, proc, duration, peak_mem_less_avail_mb, ret >>
cellVars == << peak_mem_mb, min_mem_free_mb, stop_flag >>
samplerVars == << rss, child_procs >>
histVars == << ticksAvail, ticksRss >>
vars ==
    << envVars, mainVars, localVars, cellVars, samplerVars, histVars, spc,
       launched >>

\* Thread.is_alive()
is_alive(j) == spc[j] \in {"test", "avail", "rss", "child"}

\* the call of run_script for job j has returned: its cells are reachable
\* only from its thread
Returned(j) == j < idx

\* the cells of a call that has returned and whose thread has ended are
\* released
Released(cell, j) == IF Returned(j) THEN [cell EXCEPT ![j] = Null] ELSE cell

\* the history is kept of a call until it returns
Noted(hist, j, tick) ==
    IF Returned(j) THEN hist ELSE [hist EXCEPT ![j] = @ \cup {tick}]

NoProc == [kind |-> "none", returncode |-> 0, stdout |-> <<>>, stderr |-> <<>>]

\* has_data without the is_file() test: C5 tells the two apart
has_data_AnyKind ==
    IF ~dataDirExists THEN FALSE
    ELSE \E sub \in dataFiles : sub.depth = 1 /\ sub.name = ShpName

\* has_data(data_dir)
has_data ==
    IF ~dataDirExists THEN FALSE
    ELSE \E sub \in dataFiles :
            /\ sub.depth = 1
            /\ sub.name = ShpName
            /\ sub.kind = "file"

\* lines 118-125
MetaInit ==
    ("timestamp" :> "now") @@ ("python" :> "version") @@ ("data_dir" :> "DATA_DIR")

DataPresent == {FsEntry(1, ShpName, "file")}

\* the environments a run starts in: every layout of DATA_DIR with quiet
\* jobs; every mix of job outcomes; a host whose free memory moves; a
\* loaded host, on which a join can end by its timeout, with two jobs to
\* run; a first job that prints; a harness that is run twice
EnvDataCheck ==
    /\ psutil \in BOOLEAN
    /\ dataDirExists \in BOOLEAN
    /\ dataFiles \in FsLayouts
    /\ (~dataDirExists => dataFiles = {})
    /\ job \in [Jobs -> {Missing, Quiet}]
    /\ hostAvail = SteadyAvail
    /\ hostStalls = FALSE
    /\ again = FALSE

EnvOutcomes ==
    /\ psutil \in BOOLEAN
    /\ dataDirExists = TRUE
    /\ dataFiles = DataPresent
    /\ job \in [Jobs -> {Missing, NoLaunch, Quiet, Printing(1, 1, TRUE, 1)}]
    /\ hostAvail = SteadyAvail
    /\ hostStalls = FALSE
    /\ again = FALSE

EnvMemory ==
    /\ psutil = TRUE
    /\ dataDirExists = TRUE
    /\ dataFiles = DataPresent
    /\ job = [j \in Jobs |-> Quiet]
    /\ hostAvail = MovingAvail
    /\ hostStalls = FALSE
    /\ again = FALSE

EnvLoaded ==
    /\ psutil = TRUE
    /\ dataDirExists = TRUE
    /\ dataFiles = DataPresent
    /\ job \in [Jobs -> {Quiet, NoLaunch, Missing}]
    /\ \A j \in Jobs : (job[j] = Missing) <=> (j > 2)
    /\ hostAvail = SteadyAvail
    /\ hostStalls = TRUE
    /\ again = FALSE

EnvOutput ==
    /\ psutil = TRUE
    /\ dataDirExists = TRUE
    /\ dataFiles = DataPresent
    /\ \E first \in PrintingJobs :
          job = [j \in Jobs |-> IF j = 1 THEN first ELSE Missing]
    /\ hostAvail = SteadyAvail
    /\ hostStalls = FALSE
    /\ again = FALSE

EnvRerun ==
    /\ psutil = TRUE
    /\ dataDirExists = TRUE
    /\ dataFiles = DataPresent
    /\ \E first \in {Quiet, NoLaunch, Printing(1, 1, TRUE, 1)} :
          job = [j \in Jobs |-> IF j = 1 THEN first ELSE Missing]
    /\ hostAvail = SteadyAvail
    /\ hostStalls = FALSE
    /\ again = TRUE

Init ==
    /\ \/ EnvDataCheck
       \/ EnvOutcomes
       \/ EnvMemory
       \/ EnvLoaded
       \/ EnvOutput
       \/ EnvRerun
    /\ pc = "not_started"
    /\ idx = 0
    /\ results = [meta |-> <<>>, runs |-> <<>>]
    /\ reportFile = Null
    /\ writes = 0
    /\ exitCode = Null
    /\ firstReport = Null
    /\ pre_mem_free_mb = Null
    /\ proc = NoProc
    /\ duration = Null
    /\ peak_mem_less_avail_mb = Null
    /\ ret = Null
    /\ spc = [j \in Jobs |-> "new"]
    /\ peak_mem_mb = [j \in Jobs |-> Null]
    /\ min_mem_free_mb = [j \in Jobs |-> Null]
    /\ stop_flag = [j \in Jobs |-> FALSE]
    /\ rss = [j \in Jobs |-> Null]
    /\ child_procs = [j \in Jobs |-> {}]
    /\ ticksAvail = [j \in Jobs |-> {}]
    /\ ticksRss = [j \in Jobs |-> {}]
    /\ launched = {}

\* ------------------------------------------------------------------- main
\* lines 118-125: the report is created
MainStart ==
    /\ pc = "not_started"
    /\ pc' = "checking_data"
    /\ results' = [meta |-> MetaInit, runs |-> <<>>]
    /\ UNCHANGED << envVars, idx, reportFile, writes, exitCode, localVars,
                    cellVars, spc, launched,
                    firstReport, samplerVars, histVars >>

\* lines 127-132: no data, the report is written at once and main returns 0
MainSkip ==
    /\ pc = "checking_data"
    /\ ~has_data
    /\ LET skipped == [results EXCEPT !.meta =
                          ("reason" :> "No input data found")
                          @@ ("skipped" :> TRUE) @@ @]
       IN  /\ results' = skipped
           /\ reportFile' = Some(skipped)
    /\ writes' = writes + 1
    /\ exitCode' = Some(0)
    /\ pc' = "skipped"
    /\ UNCHANGED << envVars, idx, localVars, cellVars, spc, launched,
                    firstReport, samplerVars, histVars >>

\* line 127 false: on to the for loop
MainEnterLoop ==
    /\ pc = "checking_data"
    /\ has_data
    /\ idx' = 1
    /\ pc' = "loop"
    /\ UNCHANGED << envVars, results, reportFile, writes, exitCode, localVars,
                    cellVars, spc, launched,
                    firstReport, samplerVars, histVars >>

\* a missing entry with a duration of 0 for None: C6 tells the two apart
MissingEntry_ZeroDuration ==
    ("status" :> "missing") @@ ("duration_sec" :> Some(0))
    @@ ("exit_code" :> NotFoundCode)

\* the entry of a missing target (lines 136-140)
MissingEntry ==
    ("status" :> "missing") @@ ("duration_sec" :> Null)
    @@ ("exit_code" :> NotFoundCode)

\* a missing target skipped with no entry: C1 tells the two apart
MainMissing_NoEntry ==
    /\ pc = "loop"
    /\ idx <= Len(SCRIPTS)
    /\ ~job[idx].exists
    /\ idx' = idx + 1
    /\ UNCHANGED << envVars, pc, results, reportFile, writes, exitCode,
                    localVars, cellVars, spc, launched,
                    firstReport, samplerVars, histVars >>

\* the missing target ending the loop, `break` for `continue`: C16 tells the
\* two apart
MainMissing_Breaks ==
    /\ pc = "loop"
    /\ idx <= Len(SCRIPTS)
    /\ ~job[idx].exists
    /\ results' = [results EXCEPT !.runs = (SCRIPTS[idx] :> MissingEntry) @@ @]
    /\ idx' = Len(SCRIPTS) + 1
    /\ UNCHANGED << envVars, pc, reportFile, writes, exitCode, localVars,
                    cellVars, spc, launched,
                    firstReport, samplerVars, histVars >>

\* lines 134-141: the target does not exist
MainMissing ==
    /\ pc = "loop"
    /\ idx <= Len(SCRIPTS)
    /\ ~job[idx].exists
    /\ results' = [results EXCEPT !.runs = (SCRIPTS[idx] :> MissingEntry) @@ @]
    /\ idx' = idx + 1
    /\ UNCHANGED << envVars, pc, reportFile, writes, exitCode, localVars,
                    cellVars, spc, launched,
                    firstReport, samplerVars, histVars >>

\* lines 134-135, 142: the target exists, run_script is called
MainCall ==
    /\ pc = "loop"
    /\ idx <= Len(SCRIPTS)
    /\ job[idx].exists
    /\ pc' = "rs_start"
    /\ UNCHANGED << envVars, idx, results, reportFile, writes, exitCode,
                    localVars, cellVars, spc, launched,
                    firstReport, samplerVars, histVars >>

\* an entry that keeps log_tail whatever the exit code: C7 tells the two apart
RunEntry_TailAlways(code, dur, out, peak, less) ==
    ("log_tail" :> LastItems(splitlines(out), TailLen))
    @@ (IF ~IsNull(less)
        THEN ("peak_memory_less_available_mb" :> RoundTo(Val(less), 10))
        ELSE <<>>)
    @@ (IF ~IsNull(peak)
        THEN ("peak_memory_mb" :> RoundTo(Val(peak), 10))
        ELSE <<>>)
    @@ ("status" :> IF code = 0 THEN "ok" ELSE "error")
    @@ ("duration_sec" :> Some(RoundTo(dur, 10)))
    @@ ("exit_code" :> code)

\* the block of lines 154-155 indented under that of line 149: C15 tells
\* the two apart
RunEntry_TailUnderPeak(code, dur, out, peak, less) ==
    (IF code # 0 /\ ~IsNull(peak)
        THEN ("log_tail" :> LastItems(splitlines(out), TailLen))
        ELSE <<>>)
    @@ (IF ~IsNull(less)
        THEN ("peak_memory_less_available_mb" :> RoundTo(Val(less), 10))
        ELSE <<>>)
    @@ (IF ~IsNull(peak)
        THEN ("peak_memory_mb" :> RoundTo(Val(peak), 10))
        ELSE <<>>)
    @@ ("status" :> IF code = 0 THEN "ok" ELSE "error")
    @@ ("duration_sec" :> Some(RoundTo(dur, 10)))
    @@ ("exit_code" :> code)

\* lines 143-155: the entry of a job that was run
RunEntry(code, dur, out, peak, less) ==
    (IF code # 0
        THEN ("log_tail" :> LastItems(splitlines(out), TailLen))
        ELSE <<>>)
    @@ (IF ~IsNull(less)
        THEN ("peak_memory_less_available_mb" :> RoundTo(Val(less), 10))
        ELSE <<>>)
    @@ (IF ~IsNull(peak)
        THEN ("peak_memory_mb" :> RoundTo(Val(peak), 10))
        ELSE <<>>)
    @@ ("status" :> IF code = 0 THEN "ok" ELSE "error")
    @@ ("duration_sec" :> Some(RoundTo(dur, 10)))
    @@ ("exit_code" :> code)

\* main writing RESULTS_FILE after every job: C14 tells the two apart
MainRecord_WritesEach ==
    /\ pc = "record"
    /\ LET r == Val(ret)
           recorded == [results EXCEPT !.runs =
               (SCRIPTS[idx] :> RunEntry(r.code, r.dur, r.out, r.peak, r.less))
               @@ @]
       IN  /\ results' = recorded
           /\ reportFile' = Some(recorded)
    /\ writes' = writes + 1
    /\ idx' = idx + 1
    /\ pc' = "loop"
    /\ pre_mem_free_mb' = Null
    /\ proc' = NoProc
    /\ duration' = Null
    /\ peak_mem_less_avail_mb' = Null
    /\ ret' = Null
    /\ IF is_alive(idx)
       THEN UNCHANGED << peak_mem_mb, min_mem_free_mb >>
       ELSE /\ peak_mem_mb' = [peak_mem_mb EXCEPT ![idx] = Null]
            /\ min_mem_free_mb' = [min_mem_free_mb EXCEPT ![idx] = Null]
    /\ ticksAvail' = [ticksAvail EXCEPT ![idx] = {}]
    /\ ticksRss' = [ticksRss EXCEPT ![idx] = {}]
    /\ UNCHANGED << envVars, exitCode, firstReport, stop_flag, samplerVars,
                    spc, launched >>

\* lines 142-155: run_script has returned, its result is recorded
MainRecord ==
    /\ pc = "record"
    /\ LET r == Val(ret)
       IN  results' = [results EXCEPT !.runs =
               (SCRIPTS[idx] :> RunEntry(r.code, r.dur, r.out, r.peak, r.less))
               @@ @]
    /\ idx' = idx + 1
    /\ pc' = "loop"
    /\ pre_mem_free_mb' = Null
    /\ proc' = NoProc
    /\ duration' = Null
    /\ peak_mem_less_avail_mb' = Null
    /\ ret' = Null
    /\ IF is_alive(idx)
       THEN UNCHANGED << peak_mem_mb, min_mem_free_mb >>
       ELSE /\ peak_mem_mb' = [peak_mem_mb EXCEPT ![idx] = Null]
            /\ min_mem_free_mb' = [min_mem_free_mb EXCEPT ![idx] = Null]
    /\ ticksAvail' = [ticksAvail EXCEPT ![idx] = {}]
    /\ ticksRss' = [ticksRss EXCEPT ![idx] = {}]
    /\ UNCHANGED << envVars, reportFile, writes, exitCode, firstReport,
                    stop_flag, samplerVars, spc, launched >>

\* lines 157-161: the report is written and main returns 0
MainWrite ==
    /\ pc = "loop"
    /\ idx > Len(SCRIPTS)
    /\ reportFile' = Some(results)
    /\ writes' = writes + 1
    /\ exitCode' = Some(0)
    /\ pc' = "done"
    /\ UNCHANGED << envVars, idx, results, localVars, cellVars, spc, launched,
                    firstReport, samplerVars, histVars >>


\* ------------------------------------------------------------- run_script
\* lines 66-96: the locals, the closure cells, the thread; it is started
\* only with psutil
RunStart ==
    /\ pc = "rs_start"
    /\ peak_mem_mb' = [peak_mem_mb EXCEPT ![idx] = Null]
    /\ min_mem_free_mb' = [min_mem_free_mb EXCEPT ![idx] = Null]
    /\ stop_flag' = [stop_flag EXCEPT ![idx] = FALSE]
    /\ spc' = [spc EXCEPT ![idx] = IF psutil THEN "test" ELSE "new"]
    /\ pc' = "rs_premem"
    /\ UNCHANGED << envVars, idx, results, reportFile, writes, exitCode,
                    localVars, launched,
                    firstReport, samplerVars, histVars >>

\* line 98 with psutil: the available memory before the launch
RunPreMem ==
    /\ pc = "rs_premem"
    /\ psutil
    /\ \E a \in hostAvail : pre_mem_free_mb' = Some(a)
    /\ pc' = "rs_run"
    /\ UNCHANGED << envVars, idx, results, reportFile, writes, exitCode, proc,
                    duration, peak_mem_less_avail_mb, ret, cellVars, spc,
                    launched, firstReport, samplerVars, histVars >>

\* line 98 without psutil: None.virtual_memory() raises AttributeError, which
\* nothing catches (the try starts on line 99): main ends by the exception
RunPreMemRaises ==
    /\ pc = "rs_premem"
    /\ ~psutil
    /\ pc' = "crashed"
    /\ UNCHANGED << envVars, idx, results, reportFile, writes, exitCode,
                    localVars, cellVars, spc, launched,
                    firstReport, samplerVars, histVars >>

\* line 100: subprocess.run starts the child and blocks
RunLaunch ==
    /\ pc = "rs_run"
    /\ job[idx].launches
    /\ proc' = [NoProc EXCEPT !.kind = "running"]
    /\ launched' = launched \cup {idx}
    /\ pc' = "rs_wait"
    /\ UNCHANGED << envVars, idx, results, reportFile, writes, exitCode,
                    pre_mem_free_mb, duration, peak_mem_less_avail_mb, ret,
                    cellVars, spc, firstReport, samplerVars, histVars >>

\* FileNotFoundError with no except clause for it: C9 tells the two apart
RunLaunchFails_Raises ==
    /\ pc = "rs_run"
    /\ ~job[idx].launches
    /\ pc' = "crashed"
    /\ UNCHANGED << envVars, idx, results, reportFile, writes, exitCode,
                    localVars, cellVars, spc, launched,
                    firstReport, samplerVars, histVars >>

\* lines 100-101: sys.executable is not found, FileNotFoundError
RunLaunchFails ==
    /\ pc = "rs_run"
    /\ ~job[idx].launches
    /\ proc' = [NoProc EXCEPT !.kind = "notfound"]
    /\ pc' = "rs_less"
    /\ UNCHANGED << envVars, idx, results, reportFile, writes, exitCode,
                    pre_mem_free_mb, duration, peak_mem_less_avail_mb, ret,
                    cellVars, spc, launched,
                    firstReport, samplerVars, histVars >>

\* line 100: the child exits, subprocess.run returns the CompletedProcess
RunExit ==
    /\ pc = "rs_wait"
    /\ proc' = [kind |-> "exited", returncode |-> job[idx].code,
                stdout |-> TextOf("stdout", job[idx].out, job[idx].outnl),
                stderr |-> TextOf("stderr", job[idx].err, TRUE)]
    /\ pc' = "rs_less"
    /\ UNCHANGED << envVars, idx, results, reportFile, writes, exitCode,
                    pre_mem_free_mb, duration, peak_mem_less_avail_mb, ret,
                    cellVars, spc, launched,
                    firstReport, samplerVars, histVars >>

\* lines 102-103 and 106-107: the duration, and the first read of a cell
RunLess ==
    /\ pc = "rs_less"
    /\ \E d \in Durations : duration' = Some(d)
    /\ peak_mem_less_avail_mb' =
          IF ~IsNull(min_mem_free_mb[idx])
          THEN Some(Val(pre_mem_free_mb) - Val(min_mem_free_mb[idx]))
          ELSE Null
    /\ pc' = "rs_return"
    /\ UNCHANGED << envVars, idx, results, reportFile, writes, exitCode,
                    pre_mem_free_mb, proc, ret, cellVars, spc, launched,
                    firstReport, samplerVars, histVars >>

ExcText == << Line(<<Char("File not found", 0)>>, FALSE) >>

\* line 108
CombineOutput(stdout, stderr) ==
    Concat(stdout, IF stderr # <<>> THEN Concat(NewlineText, stderr) ELSE <<>>)

\* lines 104 and 108-109: the return expression is evaluated, peak_mem_mb is
\* read; the finally clause runs after it
RunReturn ==
    /\ pc = "rs_return"
    /\ ret' = Some([code |-> IF proc.kind = "notfound" THEN NotFoundCode
                             ELSE proc.returncode,
                    dur  |-> Val(duration),
                    out  |-> IF proc.kind = "notfound" THEN ExcText
                             ELSE CombineOutput(proc.stdout, proc.stderr),
                    peak |-> peak_mem_mb[idx],
                    less |-> peak_mem_less_avail_mb])
    /\ pc' = "rs_finally"
    /\ UNCHANGED << envVars, idx, results, reportFile, writes, exitCode,
                    pre_mem_free_mb, proc, duration, peak_mem_less_avail_mb,
                    cellVars, spc, launched,
                    firstReport, samplerVars, histVars >>

\* a finally clause that leaves the stop flag unset: C10 tells the two apart
RunStop_FlagNotSet ==
    /\ pc = "rs_finally"
    /\ pc' = "rs_join"
    /\ UNCHANGED << envVars, idx, results, reportFile, writes, exitCode,
                    localVars, cellVars, spc, launched,
                    firstReport, samplerVars, histVars >>

\* line 111
RunStop ==
    /\ pc = "rs_finally"
    /\ stop_flag' = [stop_flag EXCEPT ![idx] = TRUE]
    /\ pc' = "rs_join"
    /\ UNCHANGED << envVars, idx, results, reportFile, writes, exitCode,
                    localVars, peak_mem_mb, min_mem_free_mb, spc, launched,
                    firstReport, samplerVars, histVars >>

\* lines 112-113: the thread is not alive, or the join sees it end
RunJoined ==
    /\ pc = "rs_join"
    /\ ~is_alive(idx)
    /\ pc' = "record"
    /\ UNCHANGED << envVars, idx, results, reportFile, writes, exitCode,
                    localVars, cellVars, spc, launched,
                    firstReport, samplerVars, histVars >>

\* line 113: the join ends by its timeout, the thread is still alive
RunJoinTimeout ==
    /\ pc = "rs_join"
    /\ is_alive(idx)
    /\ hostStalls
    /\ pc' = "record"
    /\ UNCHANGED << envVars, idx, results, reportFile, writes, exitCode,
                    localVars, cellVars, spc, launched,
                    firstReport, samplerVars, histVars >>

\* ----------------------------------------------------------------- sampler
\* the loop of line 80 as `while True`: C12 tells the two apart
SamplerTest_IgnoresFlag(j) ==
    /\ spc[j] = "test"
    /\ spc' = [spc EXCEPT ![j] = "avail"]
    /\ UNCHANGED << envVars, mainVars, localVars, cellVars, samplerVars,
                    histVars, launched >>

\* lines 76-80, and line 80 after the sleep of line 90: the stop flag ends
\* the loop
SamplerTest(j) ==
    /\ spc[j] = "test"
    /\ IF stop_flag[j]
       THEN /\ spc' = [spc EXCEPT ![j] = "dead"]
            /\ peak_mem_mb' = Released(peak_mem_mb, j)
            /\ min_mem_free_mb' = Released(min_mem_free_mb, j)
       ELSE /\ spc' = [spc EXCEPT ![j] = "avail"]
            /\ UNCHANGED << peak_mem_mb, min_mem_free_mb >>
    /\ UNCHANGED << envVars, mainVars, localVars, stop_flag, samplerVars,
                    histVars, launched >>

\* line 82 with max for min: C13 tells the two apart
SamplerAvail_KeepsMax(j) ==
    /\ spc[j] = "avail"
    /\ \E mem_free_mb \in hostAvail :
          /\ min_mem_free_mb' = [min_mem_free_mb EXCEPT ![j] =
                 IF IsNull(@) THEN Some(mem_free_mb)
                 ELSE Some(Max2(Val(@), mem_free_mb))]
          /\ ticksAvail' = Noted(ticksAvail, j, mem_free_mb)
    /\ spc' = [spc EXCEPT ![j] = "rss"]
    /\ UNCHANGED << envVars, mainVars, localVars, peak_mem_mb, stop_flag,
                    samplerVars, ticksRss, launched >>

\* min_mem_free_mb as one module-level variable for the cell of each call:
\* C20 tells the two apart
SamplerAvail_SharedCell(j) ==
    /\ spc[j] = "avail"
    /\ \E mem_free_mb \in hostAvail :
          /\ min_mem_free_mb' = [k \in Jobs |->
                 IF IsNull(min_mem_free_mb[j]) THEN Some(mem_free_mb)
                 ELSE Some(Min2(Val(min_mem_free_mb[j]), mem_free_mb))]
          /\ ticksAvail' = Noted(ticksAvail, j, mem_free_mb)
    /\ spc' = [spc EXCEPT ![j] = "rss"]
    /\ UNCHANGED << envVars, mainVars, localVars, peak_mem_mb, stop_flag,
                    samplerVars, ticksRss, launched >>

\* lines 81-82
SamplerAvail(j) ==
    /\ spc[j] = "avail"
    /\ \E mem_free_mb \in hostAvail :
          /\ min_mem_free_mb' = [min_mem_free_mb EXCEPT ![j] =
                 IF IsNull(@) THEN Some(mem_free_mb)
                 ELSE Some(Min2(Val(@), mem_free_mb))]
          /\ ticksAvail' = Noted(ticksAvail, j, mem_free_mb)
    /\ spc' = [spc EXCEPT ![j] = "rss"]
    /\ UNCHANGED << envVars, mainVars, localVars, peak_mem_mb, stop_flag,
                    samplerVars, ticksRss, launched >>

\* this_proc.children(recursive=True): the harness's child, while it runs
children == IF proc.kind = "running" THEN {idx} ELSE {}

\* lines 83-85: the harness's own rss, and the enumeration of its children
SamplerRss(j) ==
    /\ spc[j] = "rss"
    /\ \E self \in SelfRssReadings : rss' = [rss EXCEPT ![j] = Some(self)]
    /\ child_procs' = [child_procs EXCEPT ![j] = children]
    /\ spc' = [spc EXCEPT ![j] = "child"]
    /\ UNCHANGED << envVars, mainVars, localVars, cellVars, histVars,
                    launched >>

\* the enumerated children whose memory_info() raises: those that ended
\* since line 85
Vanished(j) == child_procs[j] \ children

\* lines 86-87 without the suppress: the failed read ends the thread by the
\* handler of line 91; C17 tells the two apart
SamplerChildren_NoSuppress(j) ==
    /\ spc[j] = "child"
    /\ IF Vanished(j) # {}
       THEN /\ spc' = [spc EXCEPT ![j] = "dead"]
            /\ peak_mem_mb' = Released(peak_mem_mb, j)
            /\ min_mem_free_mb' = Released(min_mem_free_mb, j)
            /\ UNCHANGED ticksRss
       ELSE /\ \E reading \in ChildRssReadings :
                  LET tree == IF child_procs[j] = {} THEN 0 ELSE reading
                      cur_mb == Val(rss[j]) + tree
                  IN  /\ peak_mem_mb' = [peak_mem_mb EXCEPT ![j] =
                             IF IsNull(@) \/ cur_mb > Val(@)
                             THEN Some(cur_mb) ELSE @]
                      /\ ticksRss' = Noted(ticksRss, j,
                             [self |-> Val(rss[j]), tree |-> tree,
                              suppressed |-> FALSE])
            /\ spc' = [spc EXCEPT ![j] = "test"]
            /\ UNCHANGED min_mem_free_mb
    /\ rss' = [rss EXCEPT ![j] = Null]
    /\ child_procs' = [child_procs EXCEPT ![j] = {}]
    /\ UNCHANGED << envVars, mainVars, localVars, stop_flag, ticksAvail,
                    launched >>

\* line 89 keeping the last reading for the greatest: C19 tells the two
\* apart
SamplerChildren_KeepsLast(j) ==
    /\ spc[j] = "child"
    /\ \E reading \in ChildRssReadings :
          LET tree == IF child_procs[j] \cap children = {} THEN 0 ELSE reading
              cur_mb == Val(rss[j]) + tree
          IN  /\ peak_mem_mb' = [peak_mem_mb EXCEPT ![j] = Some(cur_mb)]
              /\ ticksRss' = Noted(ticksRss, j,
                     [self |-> Val(rss[j]), tree |-> tree,
                      suppressed |-> Vanished(j) # {}])
    /\ rss' = [rss EXCEPT ![j] = Null]
    /\ child_procs' = [child_procs EXCEPT ![j] = {}]
    /\ spc' = [spc EXCEPT ![j] = "test"]
    /\ UNCHANGED << envVars, mainVars, localVars, min_mem_free_mb, stop_flag,
                    ticksAvail, launched >>

\* lines 85-90: the rss of each enumerated child is added, a failed read is
\* suppressed (line 86); the peak is raised; the sleep
SamplerChildren(j) ==
    /\ spc[j] = "child"
    /\ \E reading \in ChildRssReadings :
          LET tree == IF child_procs[j] \cap children = {} THEN 0 ELSE reading
              cur_mb == Val(rss[j]) + tree
          IN  /\ peak_mem_mb' = [peak_mem_mb EXCEPT ![j] =
                     IF IsNull(@) \/ cur_mb > Val(@) THEN Some(cur_mb) ELSE @]
              /\ ticksRss' = Noted(ticksRss, j,
                     [self |-> Val(rss[j]), tree |-> tree,
                      suppressed |-> Vanished(j) # {}])
    /\ rss' = [rss EXCEPT ![j] = Null]
    /\ child_procs' = [child_procs EXCEPT ![j] = {}]
    /\ spc' = [spc EXCEPT ![j] = "test"]
    /\ UNCHANGED << envVars, mainVars, localVars, min_mem_free_mb, stop_flag,
                    ticksAvail, launched >>

\* lines 91-92: a psutil.Error outside line 86 ends the thread
SamplerError(j) ==
    /\ spc[j] \in {"avail", "rss"}
    /\ spc' = [spc EXCEPT ![j] = "dead"]
    /\ peak_mem_mb' = Released(peak_mem_mb, j)
    /\ min_mem_free_mb' = Released(min_mem_free_mb, j)
    /\ UNCHANGED << envVars, mainVars, localVars, stop_flag, samplerVars,
                    histVars, launched >>

\* --------------------------------------------------------------- a rerun
\* the harness is started again in a new process: nothing is left of the
\* first run but RESULTS_FILE
MainAgain ==
    /\ again
    /\ IsNull(firstReport)
    /\ pc \in {"done", "skipped"}
    /\ firstReport' = reportFile
    /\ pc' = "not_started"
    /\ idx' = 0
    /\ results' = [meta |-> <<>>, runs |-> <<>>]
    /\ writes' = 0
    /\ exitCode' = Null
    /\ spc' = [j \in Jobs |-> "new"]
    /\ peak_mem_mb' = [j \in Jobs |-> Null]
    /\ min_mem_free_mb' = [j \in Jobs |-> Null]
    /\ stop_flag' = [j \in Jobs |-> FALSE]
    /\ rss' = [j \in Jobs |-> Null]
    /\ child_procs' = [j \in Jobs |-> {}]
    /\ ticksAvail' = [j \in Jobs |-> {}]
    /\ ticksRss' = [j \in Jobs |-> {}]
    /\ launched' = {}
    /\ UNCHANGED << envVars, reportFile, localVars >>

Next ==
    \/ MainStart
    \/ MainSkip
    \/ MainEnterLoop
    \/ MainMissing
    \/ MainCall
    \/ MainRecord
    \/ MainWrite
    \/ MainAgain
    \/ RunStart
    \/ RunPreMem
    \/ RunPreMemRaises
    \/ RunLaunch
    \/ RunLaunchFails
    \/ RunExit
    \/ RunLess
    \/ RunReturn
    \/ RunStop
    \/ RunJoined
    \/ RunJoinTimeout
    \/ \E j \in Jobs : SamplerTest(j)
    \/ \E j \in Jobs : SamplerAvail(j)
    \/ \E j \in Jobs : SamplerRss(j)
    \/ \E j \in Jobs : SamplerChildren(j)
    \/ \E j \in Jobs : SamplerError(j)

\* a step of the primary thread within one run of the harness
MainNext ==
    \/ MainStart
    \/ MainSkip
    \/ MainEnterLoop
    \/ MainMissing
    \/ MainCall
    \/ MainRecord
    \/ MainWrite
    \/ RunStart
    \/ RunPreMem
    \/ RunPreMemRaises
    \/ RunLaunch
    \/ RunLaunchFails
    \/ RunExit
    \/ RunLess
    \/ RunReturn
    \/ RunStop
    \/ RunJoined
    \/ RunJoinTimeout

\* a step of the sampler thread of job j
SamplerNext(j) ==
    \/ SamplerTest(j)
    \/ SamplerAvail(j)
    \/ SamplerRss(j)
    \/ SamplerChildren(j)
    \/ SamplerError(j)

Spec == Init /\ [][Next]_vars


\* ------------------------------------------------------------------ claims
runs == results.runs
NameOf(j) == SCRIPTS[j]
AllNames == {SCRIPTS[j] : j \in Jobs}
Recorded(j) == j < idx
Has(entry, key) == key \in DOMAIN entry

\* C1: with input data available, once main has returned the runs mapping
\* of the report holds one entry for every job of SCRIPTS and no other
\* entry, whatever the jobs' outcomes were.
C1_RunsTotal ==
    (has_data /\ exitCode # Null) =>
        /\ reportFile # Null
        /\ DOMAIN Val(reportFile).runs = AllNames
        /\ DOMAIN runs = AllNames
        /\ Cardinality(AllNames) = Len(SCRIPTS)

\* a run that ended with a missing job and a job that was run
C1_Witness ==
    /\ pc = "done"
    /\ \E j, k \in Jobs :
          /\ ~job[j].exists
          /\ k \in launched
          /\ runs[NameOf(k)]["status"] = "error"

\* C2: main returns 0 and writes the report for every combination of job
\* outcomes; it never ends by an uncaught exception.
C2_MainAlwaysReturnsZero ==
    /\ pc # "crashed"
    /\ (pc \in {"done", "skipped"} => exitCode = Some(0) /\ reportFile # Null)

\* C3: without psutil no sampler is ever started and neither run_script
\* nor main fails; every job that is run is recorded with status, exit code
\* and duration and without the memory keys.
C3_NoPsutilStillRuns ==
    ~psutil =>
        /\ pc # "crashed"
        /\ \A j \in Jobs : spc[j] = "new"
        /\ \A j \in Jobs :
              (Recorded(j) /\ job[j].exists) =>
                  /\ j \in launched \/ ~job[j].launches
                  /\ DOMAIN runs[NameOf(j)] \cap
                        {"peak_memory_mb", "peak_memory_less_available_mb"} = {}

\* the primary thread has read min_mem_free_mb (lines 103, 107), and
\* peak_mem_mb (lines 104, 109), of job j for its result
MinRead(j) ==
    \/ Recorded(j)
    \/ j = idx /\ pc \in {"rs_return", "rs_finally", "rs_join", "record"}
PeakRead(j) ==
    \/ Recorded(j)
    \/ j = idx /\ pc \in {"rs_finally", "rs_join", "record"}

\* C4: the sampler never writes one of its extrema after the primary
\* thread has read it for the job's result.
C4_NoWriteAfterRead ==
    [][\A j \in Jobs :
          /\ (MinRead(j) /\ min_mem_free_mb'[j] # Null)
                => min_mem_free_mb'[j] = min_mem_free_mb[j]
          /\ (PeakRead(j) /\ peak_mem_mb'[j] # Null)
                => peak_mem_mb'[j] = peak_mem_mb[j]]_vars

\* DATA_DIR does not exist, or no regular file named GebauedeBauwerk.shp
\* lies one directory below it
NoDataset ==
    \/ ~dataDirExists
    \/ \A e \in dataFiles :
          ~(e.depth = 1 /\ e.name = "GebauedeBauwerk.shp" /\ e.kind = "file")

\* C5: without a dataset no job is attempted, the report written has
\* meta.skipped = true, a reason and no runs, and main returns 0.
C5_NoDataSkips ==
    (NoDataset /\ pc \notin {"not_started", "checking_data"}) =>
        /\ pc = "skipped"
        /\ exitCode = Some(0)
        /\ reportFile # Null
        /\ Val(reportFile).meta["skipped"] = TRUE
        /\ Has(Val(reportFile).meta, "reason")
        /\ Val(reportFile).runs = <<>>
        /\ launched = {}
        /\ \A j \in Jobs : spc[j] = "new"

\* a skip with DATA_DIR present and only a directory of the expected name
C5_Witness ==
    /\ pc = "skipped"
    /\ dataDirExists
    /\ dataFiles = {FsEntry(1, ShpName, "dir")}
    /\ \E j \in Jobs : job[j].exists

\* C6: a job whose target does not exist is recorded as missing with exit
\* code 127, a null duration and no other key; no subprocess and no sampler
\* is started for it, and main does not end at it.
C6_MissingRecorded ==
    \A j \in Jobs :
        ~job[j].exists =>
            /\ j \notin launched
            /\ spc[j] = "new"
            /\ ~(pc = "crashed" /\ idx = j)
            /\ Recorded(j) =>
                  /\ DOMAIN runs[NameOf(j)] = {"status", "duration_sec", "exit_code"}
                  /\ runs[NameOf(j)]["status"] = "missing"
                  /\ runs[NameOf(j)]["exit_code"] = 127
                  /\ runs[NameOf(j)]["duration_sec"] = Null

\* the first job missing, the second one run to its end after it
C6_Witness ==
    /\ pc = "done"
    /\ ~job[1].exists
    /\ 2 \in launched
    /\ runs[NameOf(2)]["status"] = "ok"

\* C7: a job that was run has status ok exactly if its script's exit code
\* is 0 and status error otherwise; an ok entry has no log_tail.
C7_StatusFromExitCode ==
    \A j \in Jobs :
        (Recorded(j) /\ job[j].exists) =>
            LET e == runs[NameOf(j)]
            IN  /\ e["status"] \in {"ok", "error"}
                /\ j \in launched => e["exit_code"] = job[j].code
                /\ e["status"] = "ok" <=> (j \in launched /\ job[j].code = 0)
                /\ e["status"] = "ok" <=> e["exit_code"] = 0
                /\ e["status"] = "ok" => ~Has(e, "log_tail")

\* a run with an ok entry and an error entry
C7_Witness ==
    /\ pc = "done"
    /\ \E j, k \in launched :
          /\ runs[NameOf(j)]["status"] = "ok"
          /\ runs[NameOf(k)]["status"] = "error"
          /\ job[k].code # 0

\* the lines of job j's combined output: those of stdout, then those of
\* stderr, after the line break line 108 puts between the two
OutLines(j) == [i \in 1..job[j].out |-> <<Char("stdout", i)>>]
ErrLines(j) == [i \in 1..job[j].err |-> <<Char("stderr", i)>>]
BreakLines(j) ==
    IF job[j].err = 0 \/ (job[j].out > 0 /\ ~job[j].outnl)
    THEN <<>> ELSE << <<>> >>
CombinedLines(j) == OutLines(j) \o BreakLines(j) \o ErrLines(j)

\* C8: a job that exits with a non-zero code has status error, and its
\* log_tail is the last min(20, n) lines, in order, of the n lines of its
\* combined output: never all of them when n > 20.
C8_LogTail ==
    \A j \in Jobs :
        (Recorded(j) /\ j \in launched /\ job[j].code # 0) =>
            LET e == runs[NameOf(j)]
                all == CombinedLines(j)
                n == Len(all)
                m == IF n < 20 THEN n ELSE 20
            IN  /\ e["status"] = "error"
                /\ Has(e, "log_tail")
                /\ Len(e["log_tail"]) = m
                /\ \A i \in 1..m : e["log_tail"][i] = all[n - m + i]
                /\ n > 20 => e["log_tail"] # all

\* a failed job whose combined output has more than 20 lines, of both streams
C8_Witness ==
    /\ pc = "done"
    /\ 1 \in launched
    /\ job[1].code # 0
    /\ job[1].out >= 20
    /\ job[1].outnl
    /\ job[1].err = 20
    /\ Len(runs[NameOf(1)]["log_tail"]) = 20

\* C9: a launch that fails because the executable is not found makes
\* run_script return exit code 127 and not raise; the sampler is told to
\* stop and joined; the job is recorded with status error and a duration;
\* the jobs after it are run.
C9_LaunchFailureRecorded ==
    \A j \in Jobs :
        (job[j].exists /\ ~job[j].launches) =>
            /\ j \notin launched
            /\ ~(pc = "crashed" /\ idx = j /\ psutil)
            /\ (idx = j /\ pc = "record") =>
                  /\ Val(ret).code = 127
                  /\ stop_flag[j]
                  /\ ~is_alive(j) \/ hostStalls
            /\ Recorded(j) =>
                  /\ runs[NameOf(j)]["status"] = "error"
                  /\ runs[NameOf(j)]["exit_code"] = 127
                  /\ runs[NameOf(j)]["duration_sec"] # Null
                  /\ stop_flag[j]
                  /\ pc = "done" =>
                        \A k \in Jobs :
                            (k > j /\ job[k].exists) => spc[k] # "new"

\* the first launch failed, the second job was run after it
C9_Witness ==
    /\ pc = "done"
    /\ job[1].exists /\ ~job[1].launches
    /\ 2 \in launched
    /\ runs[NameOf(1)]["status"] = "error"

\* C10 as stated: at most one sampler thread is alive at any moment, also
\* after a join that ended by its timeout.
C10_OneSamplerAlive ==
    Cardinality({j \in Jobs : is_alive(j)}) <= 1

\* C10 as amended: at most one sampler thread whose stop flag is not set is
\* alive at any moment, and it is that of the job being run; a sampler of an
\* earlier job is alive only with its stop flag set, after its join ended
\* by the timeout; a subprocess runs only for the job being run.
C10_OneUnstoppedSampler ==
    /\ Cardinality({j \in Jobs : is_alive(j) /\ ~stop_flag[j]}) <= 1
    /\ \A j \in Jobs : is_alive(j) => j <= idx
    /\ \A j \in Jobs : (is_alive(j) /\ Recorded(j)) => (stop_flag[j] /\ hostStalls)
    /\ proc.kind = "running" => (pc = "rs_wait" /\ idx \in launched)

\* the sampler of the first job still alive while the second job's
\* subprocess and sampler run
C10_Witness ==
    /\ idx = 2
    /\ proc.kind = "running"
    /\ is_alive(1)
    /\ is_alive(2)

\* C11: every run of main() goes on to write the report and return: as
\* long as it has not, the primary thread has a step to take, or it is in a
\* join that the running sampler of an unloaded host ends; a join on a
\* loaded host ends by its timeout
C11_MainReachesItsEnd ==
    \/ pc \in {"done", "skipped"} /\ ~IsNull(reportFile) /\ ~IsNull(exitCode)
    \/ ENABLED MainNext
    \/ /\ pc = "rs_join"
       /\ ~hostStalls
       /\ ENABLED SamplerNext(idx)

\* a step that starts the harness anew
Restarts == IsNull(firstReport) /\ ~IsNull(firstReport')

\* run_script has left its finally clause for job j
PastFinally(j) ==
    \/ j = idx /\ pc \in {"rs_join", "record"}
    \/ Recorded(j) /\ job[j].exists

\* C12: when run_script is past its finally clause the stop flag is set; a
\* set flag is never cleared; with the flag set the sampler starts no other
\* iteration: from the test of line 80 it only ends; and a sampler that is
\* alive is never blocked, so that it ends after at most the iteration it
\* is in
C12_StopFlagEndsSampler ==
    /\ [](\A j \in Jobs : PastFinally(j) => stop_flag[j])
    /\ [][\A j \in Jobs : stop_flag[j] => stop_flag'[j] \/ Restarts]_vars
    /\ [][\A j \in Jobs :
            (stop_flag[j] /\ spc[j] = "test" /\ spc'[j] # "test")
               => spc'[j] = "dead" \/ Restarts]_vars
    /\ [](\A j \in Jobs : is_alive(j) => ENABLED SamplerNext(j))

\* the stop flag is set while the sampler is within an iteration
C12_Witness ==
    \E j \in Jobs : stop_flag[j] /\ spc[j] = "child" /\ pc = "rs_join"

SetMin(S) == CHOOSE m \in S : \A x \in S : m <= x
SetMax(S) == CHOOSE m \in S : \A x \in S : m >= x

PeakKey == "peak_memory_mb"
LessKey == "peak_memory_less_available_mb"

\* C13 as stated: the reported peak_memory_mb is >= 0, and the reported
\* peak_memory_less_available_mb, when present, is >= 0.
C13_LessNeverNegative ==
    \A j \in Jobs :
        Recorded(j) =>
            LET entry == runs[NameOf(j)]
            IN  /\ Has(entry, PeakKey) => entry[PeakKey] >= 0
                /\ Has(entry, LessKey) => entry[LessKey] >= 0

\* C13 amended: the reported peak_memory_mb is >= 0; the difference that
\* run_script builds is the reading of line 98 minus the least reading the
\* sampler has taken by then, whatever its sign, and None without a
\* reading; the entry holds it rounded to one decimal, or no such key.
C13_LessIsPreMinusMin ==
    /\ [](\A j \in Jobs :
            (Recorded(j) /\ Has(runs[NameOf(j)], PeakKey))
               => runs[NameOf(j)][PeakKey] >= 0)
    /\ [][(pc = "rs_less" /\ pc' = "rs_return") =>
            peak_mem_less_avail_mb' =
                IF ticksAvail[idx] = {} THEN Null
                ELSE Some(Val(pre_mem_free_mb) - SetMin(ticksAvail[idx]))]_vars
    /\ [][(pc = "record" /\ pc' = "loop") =>
            LET entry == results'.runs[NameOf(idx)]
            IN  IF IsNull(peak_mem_less_avail_mb) THEN ~Has(entry, LessKey)
                ELSE /\ Has(entry, LessKey)
                     /\ entry[LessKey] =
                            RoundTo(Val(peak_mem_less_avail_mb), 10)]_vars

\* a recorded difference below zero: every reading the sampler took was
\* above that of line 98
C13_Witness ==
    \E j \in Jobs :
        /\ Recorded(j)
        /\ Has(runs[NameOf(j)], LessKey)
        /\ runs[NameOf(j)][LessKey] < 0

\* C14: a run of main() writes RESULTS_FILE at most once, and exactly once
\* when it has returned; the write is the step of the skip decision when
\* there is no data, and otherwise comes when every job of SCRIPTS has its
\* entry; what is written is the whole of results; the file changes by no
\* other step.
C14_ReportWrittenOnce ==
    /\ [](writes <= 1)
    /\ [](~IsNull(exitCode) => writes = 1)
    /\ [][(writes' # writes /\ ~Restarts) =>
            /\ writes = 0 /\ writes' = 1
            /\ reportFile' = Some(results')
            /\ \/ /\ pc = "checking_data" /\ ~has_data
                  /\ DOMAIN results'.runs = {}
               \/ /\ has_data
                  /\ idx > Len(SCRIPTS)
                  /\ results' = results
                  /\ DOMAIN results.runs = AllNames]_vars
    /\ [][reportFile' # reportFile => writes' = writes + 1]_vars

\* main has returned after the loop, with one write
C14_Witness ==
    /\ pc = "done"
    /\ writes = 1
    /\ DOMAIN Val(reportFile).runs = AllNames

\* the second of two runs has written its report over that of the first
BothWritten == ~IsNull(firstReport) /\ pc \in {"done", "skipped"}

MemoryKeys == {PeakKey, LessKey}

\* what C15 calls the structure of a document: its job entries, and of
\* each its status, its exit code and its keys
Shape(doc, optional) ==
    [n \in DOMAIN doc.runs |->
        [status |-> doc.runs[n]["status"],
         exit_code |-> doc.runs[n]["exit_code"],
         keys |-> (DOMAIN doc.runs[n]) \ optional]]

\* C15 as stated: two runs on the same inputs leave documents with the
\* same job entries and, in every entry, the same status, exit code and
\* keys, the optional memory and log_tail keys among them.
C15_SameShape ==
    BothWritten => Shape(Val(firstReport), {}) = Shape(Val(reportFile), {})

\* C15 amended: two runs on the same inputs leave documents with the same
\* job entries and, in every entry, the same status, exit code and keys
\* but for the two memory keys.
C15_SameShapeButMemory ==
    BothWritten =>
        Shape(Val(firstReport), MemoryKeys) = Shape(Val(reportFile), MemoryKeys)

\* two runs that differ in a memory key of a job whose launch failed
C15_Witness ==
    /\ BothWritten
    /\ \E j \in Jobs :
          /\ job[j] = NoLaunch
          /\ Has(Val(firstReport).runs[NameOf(j)], PeakKey)
          /\ ~Has(Val(reportFile).runs[NameOf(j)], PeakKey)

\* the state of the harness; while the loop has ended and the report is
\* not written, it is still that of the last job
At(state, i) == [s |-> state, i |-> i]
Phase ==
    CASE pc = "not_started" -> At("NOT_STARTED", 0)
      [] pc = "checking_data" -> At("CHECKING_DATA", 0)
      [] pc = "skipped" -> At("SKIPPED", 0)
      [] pc = "done" -> At("DONE", 0)
      [] OTHER -> At("RUNNING", Min2(idx, Len(SCRIPTS)))

\* job j has not been touched
Untouched(j) ==
    /\ NameOf(j) \notin DOMAIN runs
    /\ spc[j] = "new"
    /\ j \notin launched

\* C16: the harness moves only from NOT_STARTED to CHECKING_DATA, from
\* there to SKIPPED or to RUNNING(job_1), from RUNNING(job_i) to
\* RUNNING(job_i+1) with the result of job i recorded, and from the last
\* job to DONE with every result recorded; before the data check is over
\* no job is touched; while job i runs the jobs before it are recorded and
\* those after it untouched; and whatever a job's outcome was, the loop has
\* its step for the next job.
C16_PhaseOrder ==
    /\ [][\/ Phase' = Phase
          \/ Restarts
          \/ Phase.s = "NOT_STARTED" /\ Phase'.s = "CHECKING_DATA"
          \/ Phase.s = "CHECKING_DATA" /\ Phase'.s = "SKIPPED"
          \/ Phase.s = "CHECKING_DATA" /\ Phase' = At("RUNNING", 1)
          \/ /\ Phase.s = "RUNNING"
             /\ Phase' = At("RUNNING", Phase.i + 1)
             /\ NameOf(Phase.i) \in DOMAIN results'.runs
          \/ /\ Phase = At("RUNNING", Len(SCRIPTS))
             /\ Phase'.s = "DONE"
             /\ DOMAIN results'.runs = AllNames]_vars
    /\ [](Phase.s \in {"NOT_STARTED", "CHECKING_DATA", "SKIPPED"}
            => \A j \in Jobs : Untouched(j))
    /\ [](Phase.s = "RUNNING" =>
            \A j \in Jobs :
                /\ j < Phase.i => NameOf(j) \in DOMAIN runs
                /\ j > Phase.i => Untouched(j))
    /\ []((pc = "loop" /\ idx <= Len(SCRIPTS))
            => ENABLED (MainMissing \/ MainCall))

\* the last job is taken up after a job that was missing or that failed
C16_Witness ==
    /\ Phase = At("RUNNING", Len(SCRIPTS))
    /\ pc = "rs_wait"
    /\ \E j \in Jobs :
          Recorded(j) /\ runs[NameOf(j)]["status"] \in {"missing", "error"}

\* C17: when the read of an enumerated child fails because the child has
\* ended, the tick is completed all the same and the sampler goes back to
\* the test of line 80; the step changes nothing of the primary thread, of
\* the job's result or of the report; and from the test the sampler goes on
\* to another reading as long as the stop flag is not set.
C17_FailedReadAbsorbed ==
    /\ [][\A j \in Jobs :
            (spc[j] = "child" /\ Vanished(j) # {} /\ spc'[j] # "child")
               => /\ spc'[j] = "test"
                  /\ ~IsNull(peak_mem_mb'[j])
                  /\ UNCHANGED << mainVars, localVars, stop_flag,
                                  launched >>]_vars
    /\ [][\A j \in Jobs :
            (spc[j] = "test" /\ ~stop_flag[j] /\ spc'[j] # "test")
               => spc'[j] = "avail"]_vars

\* after a tick with a failed read the sampler is in its next reading
C17_Witness ==
    \E j \in Jobs :
        /\ spc[j] = "rss"
        /\ ~stop_flag[j]
        /\ \E tick \in ticksRss[j] : tick.suppressed

\* run_script is being executed for job j
Running(j) ==
    /\ j = idx
    /\ pc \in {"rs_premem", "rs_run", "rs_wait", "rs_less", "rs_return",
               "rs_finally", "rs_join", "record"}

\* C18: while run_script is executed for a job, its sampler has been
\* started, and has taken a reading of the available memory, only when
\* the reading before the launch is recorded.
C18_PreReadingBeforeSampler ==
    \A j \in Jobs :
        (Running(j) /\ (spc[j] # "new" \/ ticksAvail[j] # {}))
            => ~IsNull(pre_mem_free_mb)

\* the greatest of what the completed ticks measured, None without a tick
PeakOver(measured) ==
    IF measured = {} THEN Null ELSE Some(SetMax(measured))

\* the least reading of available memory of job j, None without a reading
LeastAvail(j) ==
    IF ticksAvail[j] = {} THEN Null ELSE Some(SetMin(ticksAvail[j]))

\* what the ticks of job j measured of the subprocess and its descendants,
\* and with the harness itself
SubprocessTree(j) == { tick.tree : tick \in ticksRss[j] }
HarnessTree(j) == { tick.self + tick.tree : tick \in ticksRss[j] }

\* C19 as stated: while a job is run, peak is the greatest, over the
\* completed ticks, of the resident memory of the monitored subprocess and
\* its descendants and of nothing else, and min_available is the least
\* reading of available memory.
C19_PeakOfSubprocessTree ==
    \A j \in Jobs :
        ~Returned(j) =>
            /\ peak_mem_mb[j] = PeakOver(SubprocessTree(j))
            /\ min_mem_free_mb[j] = LeastAvail(j)

\* C19 amended: while a job is run, peak is the greatest, over the
\* completed ticks, of the resident memory of the harness process itself
\* plus that of its descendants whose read succeeded, and min_available is
\* the least reading of available memory; peak never decreases and
\* min_available never increases.
C19_PeakOfHarnessTree ==
    /\ [](\A j \in Jobs :
            ~Returned(j) =>
                /\ peak_mem_mb[j] = PeakOver(HarnessTree(j))
                /\ min_mem_free_mb[j] = LeastAvail(j))
    /\ [][\A j \in Jobs :
            /\ (~IsNull(peak_mem_mb[j]) /\ ~IsNull(peak_mem_mb'[j]))
                  => Val(peak_mem_mb'[j]) >= Val(peak_mem_mb[j])
            /\ (~IsNull(min_mem_free_mb[j]) /\ ~IsNull(min_mem_free_mb'[j]))
                  => Val(min_mem_free_mb'[j]) <= Val(min_mem_free_mb[j])]_vars

\* a peak that a tick with the subprocess running set, above what the
\* subprocess alone measured, after a later tick that measured less
C19_Witness ==
    \E j \in Jobs :
        /\ Running(j)
        /\ \E tick \in ticksRss[j] :
              /\ tick.tree > 0
              /\ peak_mem_mb[j] = Some(tick.self + tick.tree)
        /\ \E tick \in ticksRss[j] : tick.tree = 0
        /\ Cardinality(ticksAvail[j]) > 1

\* a step of the sampler thread of job j, seen from the two states
SamplerSteps(j) == is_alive(j) /\ spc'[j] # spc[j] /\ ~Restarts

\* C20: a step of a sampler thread changes nothing of main, of the report,
\* of the locals and the result of the run_script in progress or of the
\* stop flags, and no cell of another job; and an entry of runs, once
\* recorded, stays as it is.
C20_SamplerWritesOwnCells ==
    /\ [][\A j \in Jobs :
            SamplerSteps(j) =>
                /\ UNCHANGED << mainVars, localVars, stop_flag, launched >>
                /\ \A k \in Jobs \ {j} :
                      /\ peak_mem_mb'[k] = peak_mem_mb[k]
                      /\ min_mem_free_mb'[k] = min_mem_free_mb[k]
                      /\ spc'[k] = spc[k]]_vars
    /\ [][\A n \in DOMAIN runs :
            \/ Restarts
            \/ n \in DOMAIN results'.runs /\ results'.runs[n] = runs[n]]_vars

\* a sampler that outlived its join has raised its peak above the one its
\* job was recorded with, while a later job is run
C20_Witness ==
    \E j \in Jobs :
        /\ Recorded(j)
        /\ is_alive(j)
        /\ Running(idx)
        /\ Has(runs[NameOf(j)], PeakKey)
        /\ ~IsNull(peak_mem_mb[j])
        /\ RoundTo(Val(peak_mem_mb[j]), 10) > runs[NameOf(j)][PeakKey]

====
